---- MODULE Spec2Model ----
(***************************************************************************)
(* The credential lifecycle of the auth service: issuing access/refresh   *)
(* token pairs (register, login), verifying access tokens, rotating       *)
(* refresh tokens (refresh) and revoking them (logout), over the          *)
(* refresh_tokens table shared by every instance of the service.          *)
(***************************************************************************)
EXTENDS Integers, Sequences, FiniteSets, TLC

\* ---------------------------------------------------------------- bounds
NumUsers == 2
NumInstances == 2
MaxClock == 2
MaxRecords == 3

\* ------------------------------------------------------ program constants
\* token lifetimes, in clock units (the access lifetime is the shorter one)
ACCESS_TOKEN_EXPIRE_MINUTES == 0
REFRESH_TOKEN_EXPIRE_DAYS == 1

Users == 1..NumUsers
Instances == 1..NumInstances

VARIABLES
    now,        \* datetime.utcnow(), in clock units
    registered, \* ids of the users the user service holds
    store,      \* the refresh_tokens table: row id = index
    parent,     \* history: parent[i] = id of the row whose rotation inserted row i (0: register/login)
    handed,     \* history: every token a response has delivered to a caller
    loggedOut,  \* history: refresh tokens handed out to a subject before a successful logout of that subject
    req,        \* per instance: the refresh request between its lookup and its commit
    resp        \* the HTTP response on its way to the caller (NoResponse: none)

vars == <<now, registered, store, parent, handed, loggedOut, req, resp>>

\* ------------------------------------------------------------ conversions
\* str(user_data["id"]) and int(payload["sub"])
ToStr(n) == [str |-> n]
ToInt(s) == s.str

\* the user record the user service answers with
EmailOf(u) == <<"email", u>>
UserData(u) == [id |-> u, email |-> EmailOf(u), role |-> "user"]

\* ------------------------------------------------------------ ClaimsCodec
NoSub == ToStr(0)
NoEmail == EmailOf(0)
\* a string that is no validly signed token (malformed or tampered)
Garbage == [sub |-> NoSub, email |-> NoEmail, role |-> "", type |-> "garbage", exp |-> 0]
\* no Authorization header, or one that is not "Bearer ..."
NoToken == [sub |-> NoSub, email |-> NoEmail, role |-> "", type |-> "none", exp |-> 0]

\* jwt encode of the claims plus type and exp: deterministic in claims and clock
encode(data, type, exp) ==
    [sub |-> data.sub, email |-> data.email, role |-> data.role, type |-> type, exp |-> exp]

create_access_token(data, clk) == encode(data, "access", clk + ACCESS_TOKEN_EXPIRE_MINUTES)
create_refresh_token(data, clk) == encode(data, "refresh", clk + REFRESH_TOKEN_EXPIRE_DAYS)

\* decode_token raises on a bad signature, a malformed token or an expired one
Decodable(token, clk) == token.type \in {"access", "refresh"} /\ clk <= token.exp

\* hash_token: deterministic one-way digest of the whole token string
hash_token(token) == [digest |-> token]

\* ------------------------------------------------------------- responses
NoClaims == [user_id |-> 0, email |-> NoEmail, role |-> ""]

\* replay, dead: history flags of a refresh request, FALSE for every other request
Response(op, token, status, detail, access, refresh, claims) ==
    [op |-> op, token |-> token, status |-> status, detail |-> detail,
     access_token |-> access, refresh_token |-> refresh, claims |-> claims,
     replay |-> FALSE, dead |-> FALSE]

Failure(op, token, status, detail) ==
    Response(op, token, status, detail, NoToken, NoToken, NoClaims)

\* the flags of a refresh request, fixed when the request arrives: the presented
\* token is a validly signed, unexpired refresh token that an earlier refresh call
\* has already exchanged (replay), or that was handed to its subject before a
\* successful logout of that subject (dead)
Flagged(r, replay, dead) == [r EXCEPT !.replay = replay, !.dead = dead]

NoResponse == Failure("none", NoToken, 0, "")

Idle == [pc |-> "idle", token |-> NoToken, db_token |-> 0, replay |-> FALSE, dead |-> FALSE]

\* ------------------------------------------------------------------ Init
Init ==
    /\ now = 0
    /\ registered = {}
    /\ store = <<>>
    /\ parent = <<>>
    /\ handed = {}
    /\ loggedOut = {}
    /\ req = [p \in Instances |-> Idle]
    /\ resp = NoResponse

\* what a caller can present: a token it was handed, or a string of its own
Presentable == handed \cup {Garbage}
Bearer == Presentable \cup {NoToken}

\* the response reaches the caller, who from then on holds the tokens in it
deliver ==
    /\ resp # NoResponse
    /\ handed' = handed \cup ({resp.access_token, resp.refresh_token} \ {NoToken})
    /\ resp' = NoResponse
    /\ UNCHANGED <<now, registered, store, parent, loggedOut, req>>

\* a request is taken when no response is on its way
Ready == resp = NoResponse

\* the clock advances; a response takes no time to reach its caller
Tick ==
    /\ Ready
    /\ now < MaxClock
    /\ now' = now + 1
    /\ UNCHANGED <<registered, store, parent, handed, loggedOut, req, resp>>

\* --------------------------------------------------------------- issuance
\* models.RefreshToken(user_id, token_hash, expires_at); revoked defaults to False
RefreshToken(user_id, token_hash, expires_at) ==
    [user_id |-> user_id, token_hash |-> token_hash, expires_at |-> expires_at, revoked |-> FALSE]

\* mutant: the row is given the access token's lifetime
RecordExpiry_AccessLifetime(clk) == clk + ACCESS_TOKEN_EXPIRE_MINUTES

\* expires_at of the row stored for a refresh token created at clk
RecordExpiry(clk) == clk + REFRESH_TOKEN_EXPIRE_DAYS

\* mutant: the role claim is not taken from the user record
TokenData_NoRole(user_data) ==
    [sub |-> ToStr(user_data.id), email |-> user_data.email, role |-> ""]

\* token_data of register and login
TokenData(user_data) ==
    [sub |-> ToStr(user_data.id), email |-> user_data.email, role |-> user_data.role]

\* mutant: the failure of the commit is swallowed and the pair returned anyway
IssueResponse_Swallow(op, token, committed, status, access, refresh) ==
    Response(op, token, status, "", access, refresh, NoClaims)

\* db.commit() then return TokenResponse: a failing commit raises, the handler
\* answers 500 and returns nothing
IssueResponse(op, token, committed, status, access, refresh) ==
    IF committed
    THEN Response(op, token, status, "", access, refresh, NoClaims)
    ELSE Failure(op, token, 500, "Internal Server Error")

\* lines 35-62 and 85-112: create the pair, store the refresh token's row, return the pair
IssuePair(op, user_data, status, committed) ==
    LET token_data == TokenData(user_data)
        access_token == create_access_token(token_data, now)
        refresh_token == create_refresh_token(token_data, now)
        db_token == RefreshToken(user_data.id, hash_token(refresh_token), RecordExpiry(now))
        r == IssueResponse(op, NoToken, committed, status, access_token, refresh_token)
    IN  /\ Len(store) < MaxRecords
        /\ store' = IF committed THEN Append(store, db_token) ELSE store
        /\ parent' = IF committed THEN Append(parent, 0) ELSE parent
        /\ resp' = r

\* the user service numbers its users in the order it creates them
NextId == Cardinality(registered) + 1

\* POST /register. answer: what the user service did with the request
register(u, answer, committed) ==
    /\ Ready
    /\ answer \in {"201", "400", "other", "RequestError"}
    /\ answer = "201" => u = NextId
    /\ answer = "400" => u \in registered
    /\ registered' = IF answer = "201" THEN registered \cup {u} ELSE registered
    /\ IF answer = "201"
       THEN IssuePair("register", UserData(u), 201, committed)
       ELSE /\ resp' = CASE answer = "400" -> Failure("register", NoToken, 400, "Email already registered")
                         [] answer = "other" -> Failure("register", NoToken, 500, "Failed to create user")
                         [] OTHER -> Failure("register", NoToken, 503, "User service unavailable")
            /\ UNCHANGED <<store, parent>>
    /\ UNCHANGED <<now, handed, loggedOut, req>>

\* mutant: is_active is not looked at
CredentialsOk_NoActive(answer, password_ok, is_active) == answer = "200" /\ password_ok

\* lines 72-83: the lookup answered 200, the password verifies, the account is active
CredentialsOk(answer, password_ok, is_active) == answer = "200" /\ password_ok /\ is_active

\* POST /login. answer: the user service's answer to the lookup by email
login(u, answer, password_ok, is_active, committed) ==
    /\ Ready
    /\ answer \in {"200", "404", "RequestError"}
    /\ answer = "200" => u \in registered
    /\ answer = "404" => u \notin registered
    /\ IF CredentialsOk(answer, password_ok, is_active)
       THEN IssuePair("login", UserData(u), 200, committed)
       ELSE /\ resp' = CASE answer = "RequestError" -> Failure("login", NoToken, 503, "User service unavailable")
                         [] answer = "404" -> Failure("login", NoToken, 401, "Invalid credentials")
                         [] ~password_ok -> Failure("login", NoToken, 401, "Invalid credentials")
                         [] OTHER -> Failure("login", NoToken, 403, "Account is inactive")
            /\ UNCHANGED <<store, parent>>
    /\ UNCHANGED <<now, registered, handed, loggedOut, req>>

\* ----------------------------------------------------------- GET /verify
\* mutant: the type claim is not looked at
AccessTypeOk_Any(payload) == TRUE

\* payload.get("type") != "access"
AccessTypeOk(payload) == payload.type = "access"

\* mutant: verify also asks the store for a non-revoked row of the subject
VerifyResponse_Stored(token) ==
    IF token = NoToken
    THEN Failure("verify", token, 401, "Invalid authorization header")
    ELSE IF /\ Decodable(token, now) /\ AccessTypeOk(token)
            /\ \E i \in DOMAIN store : store[i].user_id = ToInt(token.sub) /\ ~store[i].revoked
         THEN Response("verify", token, 200, "", NoToken, NoToken,
                       [user_id |-> ToInt(token.sub), email |-> token.email, role |-> token.role])
         ELSE Failure("verify", token, 401, "Invalid or expired token")

\* lines 116-131: every exception of the try block, the HTTPException of the
\* type check included, is answered by the handler of line 130
VerifyResponse(token) ==
    IF token = NoToken
    THEN Failure("verify", token, 401, "Invalid authorization header")
    ELSE IF Decodable(token, now) /\ AccessTypeOk(token)
         THEN Response("verify", token, 200, "", NoToken, NoToken,
                       [user_id |-> ToInt(token.sub), email |-> token.email, role |-> token.role])
         ELSE Failure("verify", token, 401, "Invalid or expired token")

verify_token(token) ==
    /\ Ready
    /\ resp' = VerifyResponse(token)
    /\ UNCHANGED <<now, registered, store, parent, handed, loggedOut, req>>

\* ----------------------------------------------------------------- GET /me
\* schemas.UserInfo(id, email, full_name): the user record the user service
\* returned; it carries no role and full_name is not modelled
UserInfo(user_data) == [user_id |-> user_data.id, email |-> user_data.email, role |-> ""]

\* lines 139-161. answer: what the user service did with the lookup by email.
\* The HTTPExceptions of the try block are re-raised (line 158); every other
\* exception, httpx.RequestError included, is answered by line 160
MeResponse(token, answer) ==
    IF token = NoToken
    THEN Failure("me", token, 401, "Invalid authorization header")
    ELSE IF ~Decodable(token, now)
         THEN Failure("me", token, 401, "Invalid or expired token")
         ELSE IF ~AccessTypeOk(token)
              THEN Failure("me", token, 401, "Invalid token type")
              ELSE CASE answer = "200" ->
                            Response("me", token, 200, "", NoToken, NoToken,
                                     UserInfo(UserData(ToInt(token.sub))))
                     [] answer = "other" -> Failure("me", token, 404, "User not found")
                     [] OTHER -> Failure("me", token, 401, "Invalid or expired token")

get_current_user(token, answer) ==
    /\ Ready
    /\ answer \in {"200", "other", "RequestError"}
    /\ resp' = MeResponse(token, answer)
    /\ UNCHANGED <<now, registered, store, parent, handed, loggedOut, req>>

\* --------------------------------------------------------- POST /refresh
\* payload.get("type") != "refresh"
RefreshTypeOk(payload) == payload.type = "refresh"

\* mutant: the query also drops the rows whose expires_at the clock has reached
ActiveRows_Unexpired(token_hash) ==
    {i \in DOMAIN store : /\ store[i].token_hash = token_hash /\ ~store[i].revoked
                          /\ now < store[i].expires_at}

\* the rows the query of lines 174-177 selects from
ActiveRows(token_hash) ==
    {i \in DOMAIN store : store[i].token_hash = token_hash /\ ~store[i].revoked}

\* history: some refresh call presenting this token has succeeded, i.e. a row
\* stored for it was the db_token of a committed rotation
Rotated(token) ==
    \E i \in DOMAIN store :
        /\ store[i].token_hash = hash_token(token)
        /\ \E j \in DOMAIN parent : parent[j] = i

\* mutant: a lookup miss revokes every row of the token's subject
LookupMiss_RevokeSubject(rows, payload) ==
    [i \in DOMAIN rows |->
        IF rows[i].user_id = ToInt(payload.sub) THEN [rows[i] EXCEPT !.revoked = TRUE] ELSE rows[i]]

\* lines 179-180: if not db_token the handler raises; it writes no row
LookupMiss(rows, payload) == rows

\* lines 165-180: decode, type check, and the query for a non-revoked row.
\* .first() has no ORDER BY: any matching row may be the one returned
refresh_token_lookup(p, token) ==
    /\ Ready
    /\ req[p].pc = "idle"
    /\ LET live == Decodable(token, now) /\ RefreshTypeOk(token)
           replay == live /\ Rotated(token)
           dead == live /\ token \in loggedOut
       IN  IF ~live
           THEN /\ resp' = Failure("refresh", token, 401, "Invalid or expired token")
                /\ UNCHANGED <<req, store>>
           ELSE IF ActiveRows(hash_token(token)) = {}
                THEN /\ resp' = Flagged(Failure("refresh", token, 401, "Token revoked or not found"),
                                        replay, dead)
                     /\ store' = LookupMiss(store, token)
                     /\ UNCHANGED req
                ELSE /\ \E i \in ActiveRows(hash_token(token)) :
                          req' = [req EXCEPT ![p] = [pc |-> "found", token |-> token, db_token |-> i,
                                                     replay |-> replay, dead |-> dead]]
                     /\ UNCHANGED <<resp, store>>
    /\ UNCHANGED <<now, registered, parent, handed, loggedOut>>

\* mutant: the old row is left as it was
Revoke_Skip(rows, id) == rows

\* mutant: revoking a row also cuts its expires_at down to the present
Revoke_Touch(rows, id) == [rows EXCEPT ![id].revoked = TRUE, ![id].expires_at = now]

\* db_token.revoked = True
Revoke(rows, id) == [rows EXCEPT ![id].revoked = TRUE]

\* mutant: the role of the new pair is not the role of the presented token
RefreshTokenData_Role(payload) ==
    [sub |-> payload.sub, email |-> payload.email, role |-> "admin"]

\* lines 183-187: token_data of the new pair, copied from the decoded payload
RefreshTokenData(payload) ==
    [sub |-> payload.sub, email |-> payload.email, role |-> payload.role]

\* lines 182-205: the new pair, the old row revoked, the new row added, one
\* commit; a failing commit raises and nothing is written
refresh_token_commit(p, committed) ==
    /\ Ready
    /\ req[p].pc = "found"
    /\ committed => Len(store) < MaxRecords
    /\ LET payload == req[p].token
           token_data == RefreshTokenData(payload)
           new_access_token == create_access_token(token_data, now)
           new_refresh_token == create_refresh_token(token_data, now)
           new_db_token == RefreshToken(ToInt(payload.sub), hash_token(new_refresh_token),
                                        RecordExpiry(now))
           r == Flagged(IssueResponse("refresh", payload, committed, 200,
                                      new_access_token, new_refresh_token),
                        req[p].replay, req[p].dead)
       IN  /\ store' = IF committed
                       THEN Append(Revoke(store, req[p].db_token), new_db_token)
                       ELSE store
           /\ parent' = IF committed THEN Append(parent, req[p].db_token) ELSE parent
           /\ resp' = r
    /\ req' = [req EXCEPT ![p] = Idle]
    /\ UNCHANGED <<now, registered, handed, loggedOut>>

\* ---------------------------------------------------------- POST /logout
\* mutant: the update has no filter and writes the comparison into every row
RevokeAll_Overwrite(rows, user_id) ==
    [i \in DOMAIN rows |-> [rows[i] EXCEPT !.revoked = (rows[i].user_id = user_id)]]

\* mutant: the update is not restricted to the rows of the subject
RevokeAll_Everyone(rows, user_id) ==
    [i \in DOMAIN rows |-> [rows[i] EXCEPT !.revoked = TRUE]]

\* UPDATE refresh_tokens SET revoked = true WHERE user_id = :user_id AND revoked = false
RevokeAll(rows, user_id) ==
    [i \in DOMAIN rows |->
        IF rows[i].user_id = user_id /\ ~rows[i].revoked
        THEN [rows[i] EXCEPT !.revoked = TRUE]
        ELSE rows[i]]

\* lines 209-226: the token is decoded, its type is not looked at; every
\* exception of the try block, a failing commit included, is answered 401
logout(token, committed) ==
    /\ Ready
    /\ IF token = NoToken
       THEN /\ resp' = Failure("logout", token, 401, "Invalid authorization header")
            /\ UNCHANGED <<store, loggedOut>>
       ELSE IF ~Decodable(token, now)
            THEN /\ resp' = Failure("logout", token, 401, "Invalid token")
                 /\ UNCHANGED <<store, loggedOut>>
            ELSE IF committed
                 THEN /\ store' = RevokeAll(store, ToInt(token.sub))
                      /\ resp' = Response("logout", token, 200, "Logged out successfully",
                                          NoToken, NoToken, NoClaims)
                      /\ loggedOut' = loggedOut \cup
                            {t \in handed : t.type = "refresh" /\ t.sub = token.sub}
                 ELSE /\ resp' = Failure("logout", token, 401, "Invalid token")
                      /\ UNCHANGED <<store, loggedOut>>
    /\ UNCHANGED <<now, registered, parent, handed, req>>

\* an input the handler does not get to read is not varied
Only(read) == IF read THEN BOOLEAN ELSE {TRUE}

OnlyAnswer(read) == IF read THEN {"200", "other", "RequestError"} ELSE {"200"}

Next ==
    \/ Tick
    \/ deliver
    \/ \E u \in Users, a \in {"201", "400", "other", "RequestError"} :
          \E c \in Only(a = "201") : register(u, a, c)
    \/ \E u \in Users, a \in {"200", "404", "RequestError"} :
          \E pw \in Only(a = "200") : \E act \in Only(pw /\ a = "200") :
             \E c \in Only(act /\ pw /\ a = "200") : login(u, a, pw, act, c)
    \/ \E t \in Bearer : verify_token(t)
    \/ \E t \in Bearer : \E a \in OnlyAnswer(Decodable(t, now) /\ AccessTypeOk(t)) :
          get_current_user(t, a)
    \/ \E p \in Instances, t \in Presentable : refresh_token_lookup(p, t)
    \/ \E p \in Instances, c \in BOOLEAN : refresh_token_commit(p, c)
    \/ \E t \in Bearer : \E c \in Only(Decodable(t, now)) : logout(t, c)

Spec == Init /\ [][Next]_vars

\* ======================================================================
\* The claims
\* ======================================================================
HasRow(token) == \E i \in DOMAIN store : store[i].token_hash = hash_token(token)
Children(i) == {j \in DOMAIN parent : parent[j] = i}
Valid(token) == Decodable(token, now)
NoPair(r) == r.access_token = NoToken /\ r.refresh_token = NoToken

\* C1 (as claimed): once a refresh call presenting R has succeeded, every later
\* refresh call presenting R is answered 401 'Token revoked or not found' and
\* returns no token pair (a request that ends in a storage failure aside).
C1_SingleUseRefresh ==
    (resp.op = "refresh" /\ resp.replay /\ resp.status # 500) =>
        /\ resp.status = 401
        /\ resp.detail = "Token revoked or not found"
        /\ NoPair(resp)

\* C2 (as claimed): of the refresh calls that present the same valid token, run
\* concurrently or not, at most one succeeds: no row is the revoked parent of
\* more than one inserted row.
C2_ConcurrentRefreshRace ==
    \A i \in DOMAIN store : Cardinality(Children(i)) <= 1

\* C3 (as claimed): after a successful logout of subject S, every refresh call
\* presenting a refresh token handed to S before that logout is answered 401
\* 'Token revoked or not found' (a request that ends in a storage failure aside).
C3_LogoutRevokesAll ==
    (resp.op = "refresh" /\ resp.dead /\ resp.status # 500) =>
        /\ resp.status = 401
        /\ resp.detail = "Token revoked or not found"
        /\ NoPair(resp)

\* C4: verify never changes the store, and it accepts a token exactly when the
\* token is a validly signed access token whose exp the clock has not passed,
\* whatever the store holds (so also after a logout or a rotation).
C4_StatelessVerification ==
    [][(Ready /\ resp'.op = "verify") =>
          /\ store' = store
          /\ resp'.status = 200 <=> (resp'.token.type = "access" /\ now <= resp'.token.exp)]_vars

\* C4 witness: an access token is accepted although its subject has been logged
\* out and holds no non-revoked row any more.
C4_Witness ==
    /\ resp.op = "verify" /\ resp.status = 200
    /\ \E t \in loggedOut : t.sub = resp.token.sub
    /\ \A i \in DOMAIN store : store[i].user_id = ToInt(resp.token.sub) => store[i].revoked

\* C5: verify accepts only tokens of type access and refresh only tokens of type
\* refresh; a token of another type is answered 401, yields no claims and no
\* token pair, and the request changes no row.
C5_TypeSeparation ==
    [][(/\ Ready
        /\ \/ resp'.op = "verify" /\ resp'.token.type # "access"
           \/ resp'.op = "refresh" /\ resp'.token.type # "refresh") =>
          /\ resp'.status = 401
          /\ resp'.claims = NoClaims
          /\ NoPair(resp')
          /\ store' = store]_vars

\* C5 witness: a validly signed, unexpired refresh token was presented to verify
\* and rejected.
C5_Witness ==
    /\ resp.op = "verify" /\ resp.token.type = "refresh" /\ Valid(resp.token)
    /\ resp.status = 401

\* C6 (as claimed): a validly signed, unexpired token of the wrong type is
\* answered with the detail 'Invalid token type'.
C6_SpecificErrorKinds ==
    (/\ Valid(resp.token)
     /\ \/ resp.op = "verify" /\ resp.token.type # "access"
        \/ resp.op = "refresh" /\ resp.token.type # "refresh") =>
        resp.detail = "Invalid token type"

\* C7 (as claimed): a logout whose bearer token is not a valid, unexpired access
\* token is answered 401 and revokes no row.
C7_LogoutRequiresAccessToken ==
    [][(Ready /\ resp'.op = "logout" /\ ~(Valid(resp'.token) /\ resp'.token.type = "access")) =>
          (resp'.status = 401 /\ store' = store)]_vars

\* C8: a row that is revoked stays in the store and stays revoked, whatever
\* operation runs.
C8_RevocationMonotonic ==
    [][\A i \in DOMAIN store :
          store[i].revoked => (i \in DOMAIN store' /\ store'[i].revoked)]_vars

\* C8 witness: a row revoked by a rotation is still revoked after a logout of
\* another subject has gone through.
C8_Witness ==
    /\ resp.op = "logout" /\ resp.status = 200
    /\ \E i \in DOMAIN store :
          /\ store[i].revoked /\ Children(i) # {}
          /\ store[i].user_id # ToInt(resp.token.sub)

\* a row stored for the presented token has expires_at in the past
ExpiredRow(token) ==
    \E i \in DOMAIN store : store[i].token_hash = hash_token(token) /\ store[i].expires_at < now

\* a step that answers a refresh request at its lookup (lines 165-180)
LookupAnswered == Ready /\ resp'.op = "refresh" /\ req' = req

\* C9 (as claimed): a refresh whose matching row has expires_at in the past is
\* treated as a lookup miss: 401 'Token revoked or not found'.
C9_LazyExpiry_NotFound ==
    [][(LookupAnswered /\ ExpiredRow(resp'.token)) =>
          (resp'.status = 401 /\ resp'.detail = "Token revoked or not found")]_vars

\* C9 (amended): a refresh whose matching row has expires_at in the past when the
\* request arrives never passes the lookup, revoked or not: the token's own exp
\* has passed too and the request is answered 401 'Invalid or expired token',
\* changing no row.
C9_LazyExpiry ==
    [][/\ \A p \in Instances :
             (req[p].pc = "idle" /\ req'[p].pc = "found") => ~ExpiredRow(req'[p].token)
       /\ (LookupAnswered /\ ExpiredRow(resp'.token)) =>
             /\ resp'.status = 401
             /\ resp'.detail = "Invalid or expired token"
             /\ store' = store]_vars

\* C9 witness: a refresh presenting a token whose row is expired and not revoked
\* was rejected.
C9_Witness ==
    /\ resp.op = "refresh" /\ resp.status = 401
    /\ \E i \in DOMAIN store :
          /\ store[i].token_hash = hash_token(resp.token)
          /\ store[i].expires_at < now
          /\ ~store[i].revoked

\* C10: every refresh token a response carries or a caller holds has a row in
\* the store keyed by its hash, and a register, login or refresh that fails
\* carries no token.
C10_IssuanceAllOrNothing ==
    /\ \A t \in handed \cup {resp.refresh_token} : t.type = "refresh" => HasRow(t)
    /\ (resp.op \in {"register", "login", "refresh"} /\ resp.status \notin {200, 201}) => NoPair(resp)

\* C10 witness: the commit of an issuance failed and the caller got a 500 and
\* no token, while tokens of earlier issuances are held.
C10_Witness ==
    /\ resp.op \in {"register", "login", "refresh"}
    /\ resp.status = 500 /\ resp.detail = "Internal Server Error"
    /\ \E t \in handed : t.type = "refresh"

\* a step of a refresh request that turns row i from non-revoked to revoked
RotatedAway(i) == Ready /\ resp'.op = "refresh" /\ ~store[i].revoked /\ store'[i].revoked

\* C11: the revocation of the old row and the insertion of the new row take
\* effect in the same step or not at all: a refresh that revokes a row inserts
\* its successor in that step, a row inserted by a rotation finds its parent
\* revoked, every row with a successor is revoked, and a refresh whose commit
\* fails leaves the table as it was.
C11_RotationAtomic ==
    [][/\ \A i \in DOMAIN store :
             RotatedAway(i) => (Len(store') = Len(store) + 1 /\ parent'[Len(store')] = i)
       /\ \A j \in DOMAIN store' \ DOMAIN store :
             parent'[j] # 0 => (store'[parent'[j]].revoked /\ resp'.status = 200)
       /\ \A j \in DOMAIN store : parent[j] # 0 => store[parent[j]].revoked
       /\ (Ready /\ resp'.op = "refresh" /\ resp'.status = 500) => store' = store]_vars

\* C11 witness: after a committed rotation, the commit of a later refresh failed.
C11_Witness ==
    /\ resp.op = "refresh" /\ resp.status = 500
    /\ \E i \in DOMAIN store : store[i].revoked /\ Children(i) # {}
    /\ \E i \in DOMAIN store : ~store[i].revoked

\* C12: a refresh that fails (the token does not decode or has expired, is of
\* the wrong type, has no non-revoked row, or the commit fails) leaves every
\* row as it was; in particular a replayed token revokes no other row of its
\* subject.
C12_FailedRefreshMutatesNothing ==
    [][(Ready /\ resp'.op = "refresh" /\ resp'.status # 200) =>
          (store' = store /\ parent' = parent)]_vars

\* C12 witness: the replay of an exchanged token was rejected while its subject
\* holds a non-revoked row.
C12_Witness ==
    /\ resp.op = "refresh" /\ resp.replay /\ resp.status = 401
    /\ \E i \in DOMAIN store : store[i].user_id = ToInt(resp.token.sub) /\ ~store[i].revoked

\* the access token issued at clock value clk to user u
IssuedTo(token, u, clk) == token = create_access_token(TokenData(UserData(u)), clk)

\* C13: an access token that register, login or refresh has returned and that
\* has not expired is accepted by verify, and the identity verify returns is
\* the id, the email and the role of the user it was issued to.
C13_VerifyReturnsIssuedIdentity ==
    (/\ resp.op = "verify"
     /\ resp.token \in handed /\ resp.token.type = "access" /\ Valid(resp.token)) =>
        /\ resp.status = 200
        /\ \E u \in registered, clk \in 0..now :
              /\ IssuedTo(resp.token, u, clk)
              /\ resp.claims = [user_id |-> UserData(u).id, email |-> UserData(u).email,
                                role |-> UserData(u).role]

\* C13 witness: verify accepted an access token that a refresh had returned
\* to the second user.
C13_Witness ==
    /\ resp.op = "verify" /\ resp.status = 200 /\ resp.claims.user_id = 2
    /\ \E i \in DOMAIN store :
          /\ parent[i] # 0 /\ store[i].user_id = 2
          /\ store[i].expires_at = resp.token.exp - ACCESS_TOKEN_EXPIRE_MINUTES + REFRESH_TOKEN_EXPIRE_DAYS

SameIdentity(t, r) == t.sub = r.sub /\ t.email = r.email /\ t.role = r.role

\* C14: the access token and the refresh token a successful refresh returns
\* carry the sub, email and role of the presented token, and the row a rotation
\* inserts has the user_id of the row it revokes.
C14_RotationPreservesIdentity ==
    /\ (resp.op = "refresh" /\ resp.status = 200) =>
          /\ resp.access_token.type = "access" /\ SameIdentity(resp.access_token, resp.token)
          /\ resp.refresh_token.type = "refresh" /\ SameIdentity(resp.refresh_token, resp.token)
    /\ \A j \in DOMAIN store :
          parent[j] # 0 => store[j].user_id = store[parent[j]].user_id

\* C14 witness: the second user's refresh token was rotated while the first
\* user holds a row too.
C14_Witness ==
    /\ resp.op = "refresh" /\ resp.status = 200 /\ resp.token.sub = ToStr(2)
    /\ \E i \in DOMAIN store : store[i].user_id = 1
    /\ \E j \in DOMAIN store : parent[j] # 0 /\ store[j].user_id = 2

\* C15 (as claimed): no two rows of the table share a token_hash, also when
\* several pairs are issued to the same subject at the same clock value.
C15_OneRecordPerToken ==
    \A i, j \in DOMAIN store : store[i].token_hash = store[j].token_hash => i = j

\* C16 (as claimed): a register, a login or a /me whose call to the user
\* service times out or fails at transport level is answered 503 and writes
\* no row.
C16_CollaboratorFailure ==
    [][/\ \A u \in Users :
             (register(u, "RequestError", TRUE) \/ login(u, "RequestError", TRUE, TRUE, TRUE)) =>
                (resp'.status = 503 /\ store' = store)
       /\ \A t \in Bearer :
             (Valid(t) /\ t.type = "access" /\ get_current_user(t, "RequestError")) =>
                (resp'.status = 503 /\ store' = store)]_vars

\* C17 (as claimed): a logout or a refresh whose store operation fails is
\* answered with a storage failure, not with 401, and leaves every row as it
\* was.
C17_StoreFailureSurfaced ==
    [][/\ \A t \in Bearer :
             (Valid(t) /\ logout(t, FALSE)) => (resp'.status \in {500, 503} /\ store' = store)
       /\ \A p \in Instances :
             refresh_token_commit(p, FALSE) => (resp'.status \in {500, 503} /\ store' = store)]_vars

\* C18: login returns a pair and inserts a row only when the lookup answered
\* 200, the password verified and is_active is true, register only when the
\* user service answered 201; a login or register with any other outcome
\* (401, 403, 400, 500, 503) returns no token and leaves the table unchanged.
C18_IssuanceAfterCredentialCheck ==
    [][/\ (Ready /\ resp'.op = "login") =>
             \A u \in Users, a \in {"200", "404", "RequestError"}, pw, act \in BOOLEAN :
                (login(u, a, pw, act, TRUE) /\ ~(a = "200" /\ pw /\ act)) =>
                   (NoPair(resp') /\ store' = store /\ resp'.status \in {401, 403, 503})
       /\ (Ready /\ resp'.op = "register") =>
             \A u \in Users, a \in {"400", "other", "RequestError"} :
                register(u, a, TRUE) =>
                   (NoPair(resp') /\ store' = store /\ resp'.status \in {400, 500, 503})
       /\ (Ready /\ resp'.op \in {"login", "register"} /\ resp'.status \notin {200, 201}) =>
             (NoPair(resp') /\ store' = store)
       /\ (Ready /\ resp'.op \in {"login", "register"} /\ resp'.status \in {200, 201}) =>
             /\ resp'.access_token.type = "access" /\ resp'.refresh_token.type = "refresh"
             /\ Len(store') = Len(store) + 1]_vars

\* C18 witness: the login of an inactive account with the right password was
\* answered 403 while the account holds a non-revoked row.
C18_Witness ==
    /\ resp.op = "login" /\ resp.status = 403 /\ NoPair(resp)
    /\ \E i \in DOMAIN store : ~store[i].revoked

\* C19: a successful logout of subject S sets revoked on the rows of S, leaves
\* every row of another subject as it was, and inserts and deletes no row.
C19_LogoutScopedToSubject ==
    [][(Ready /\ resp'.op = "logout" /\ resp'.status = 200) =>
          /\ DOMAIN store' = DOMAIN store
          /\ \A i \in DOMAIN store :
                store'[i] = IF store[i].user_id = ToInt(resp'.token.sub)
                            THEN [store[i] EXCEPT !.revoked = TRUE]
                            ELSE store[i]]_vars

\* C19 witness: after a successful logout every row of its subject is revoked
\* while another subject still holds a non-revoked row.
C19_Witness ==
    /\ resp.op = "logout" /\ resp.status = 200
    /\ \E i \in DOMAIN store : store[i].user_id = ToInt(resp.token.sub) /\ store[i].revoked
    /\ \E i \in DOMAIN store : store[i].user_id # ToInt(resp.token.sub) /\ ~store[i].revoked

\* C20: no step deletes a row or changes the user_id, the token_hash or the
\* expires_at of a row; the only change a row undergoes is revoked turning
\* from false to true.
C20_AppendOnly ==
    [][/\ Len(store') >= Len(store)
       /\ \A i \in DOMAIN store :
             \/ store'[i] = store[i]
             \/ ~store[i].revoked /\ store'[i] = [store[i] EXCEPT !.revoked = TRUE]]_vars

\* C20 witness: the table holds a row revoked by a rotation, the row that
\* rotation inserted, and a row revoked by a logout.
C20_Witness ==
    /\ \E i \in DOMAIN store : store[i].revoked /\ Children(i) # {} /\ store[i].expires_at > now
    /\ \E j \in DOMAIN store : store[j].revoked /\ Children(j) = {} /\ parent[j] = 0
    /\ resp.op = "logout" /\ resp.status = 200

\* C21 (as claimed): the refresh token a successful refresh returns differs
\* from the presented one, and the row a rotation inserts has another
\* token_hash than the row it revokes, also when the refresh happens at the
\* clock value at which the presented token was issued.
C21_RotationYieldsFreshToken ==
    /\ (resp.op = "refresh" /\ resp.status = 200) => resp.refresh_token # resp.token
    /\ \A j \in DOMAIN store :
          parent[j] # 0 => store[j].token_hash # store[parent[j]].token_hash

\* a refresh token that has not expired, that no refresh call has exchanged
\* and that was not handed to its subject before a logout of that subject
Untouched(t) == t.type = "refresh" /\ Valid(t) /\ ~Rotated(t) /\ t \notin loggedOut

NonRevoked(rows, u) == {i \in DOMAIN rows : rows[i].user_id = u /\ ~rows[i].revoked}

\* the rows a successful register or login of user u has inserted
Sessions(u) == {i \in DOMAIN store : store[i].user_id = u /\ parent[i] = 0}

\* C23 (as claimed): a subject never holds more non-revoked rows than
\* register and login calls have succeeded for it, and a successful refresh
\* leaves the number of non-revoked rows of every subject unchanged, also
\* when refreshes of the same token run concurrently.
C23_RefreshNeverMultiplies ==
    [][/\ \A u \in Users : Cardinality(NonRevoked(store, u)) <= Cardinality(Sessions(u))
       /\ (Ready /\ resp'.op = "refresh" /\ resp'.status = 200) =>
             \A u \in Users :
                Cardinality(NonRevoked(store', u)) = Cardinality(NonRevoked(store, u))]_vars
====
